---------------------------- MODULE Spec2Model ----------------------------
(***************************************************************************)
(* A model of the ws-rs connection state machine (src/src/connection.rs),  *)
(* of its buffered I/O path and of the Sender/Command channel              *)
(* (src/src/communication.rs).                                             *)
(*                                                                         *)
(* Bytes are modelled as natural numbers: the k-th byte ever appended to   *)
(* the output buffer is the number k, the k-th byte ever pulled from the   *)
(* stream is the number k, so loss, duplication and reordering show.       *)
(***************************************************************************)
EXTENDS Integers, Sequences, FiniteSets, TLC

\* ------------------------------------------------------------------ bounds

\* Longest payload of one send_message, in the buffer specification.
MaxFrame == 2
\* Bytes appended to the output buffer over a run of the buffer specification.
MaxOutBytes == 3
\* Bytes pulled from the stream over a run of the buffer specification.
MaxInBytes == 2
\* Bytes sent, and bytes pulled, over a run of the lifecycle specification.
LifeBytes == 1
\* Pulls of one read() call (the while loop of read()).
MaxPulls == 2
\* Candidate addresses given to as_client.
MaxAddrs == 2
\* Largest configured out_buffer_capacity.
MaxOutCap == 2
\* on_close invocations over a run.
MaxCloses == 2
\* Configured in_buffer_capacity.
InCap == 2
\* Room the stream's read adds to a full input vector before it reads.
ReadReserve == 1
\* Configured queue_size; the model has one connection slot, so the command
\* channel holds QueueSize commands.
QueueSize == 2
\* Commands one thread enqueues over a run of the ordering specification.
MaxSends == 3

\* --------------------------------------------------------------- variables

VARIABLES
    state,        \* Connection.state: the State variant
    hs,           \* the two handshake cursors of State::Connecting
    endpoint,     \* Connection.endpoint
    events,       \* Connection.events: the readiness interest (a Ready set)
    in_buffer,    \* Connection.in_buffer: Cursor<Vec<u8>>
    out_buffer,   \* Connection.out_buffer: Cursor<Vec<u8>>
    addresses,    \* Connection.addresses: Vec<SocketAddr>
    settings,     \* Connection.settings, with the build's cfg flags
    socket,       \* Connection.socket: the stream collaborator
    chan,         \* the command channel of the Senders, and its parked callers
    halted,       \* the process has stopped on a panic!
    hist,         \* counters of what happened over the run
    last          \* the last operation: its name, result and callbacks

vars == <<state, hs, endpoint, events, in_buffer, out_buffer, addresses,
          settings, socket, chan, halted, hist, last>>

\* ------------------------------------------------------------------- types

States == {"Connecting", "Open", "AwaitingClose", "RespondingClose", "FinishedClose"}

Kinds == {"Internal", "Capacity", "Protocol", "Encoding", "Http", "Custom",
          "Timer", "Queue", "Io"}

Max(a, b) == IF a >= b THEN a ELSE b

Min(a, b) == IF a <= b THEN a ELSE b

\* The handshake cursors of a fresh connection: both empty, at position 0.
NewHs == [req_pos |-> 0, res_pos |-> 0, res |-> "empty"]

\* The bytes lo..hi as a sequence.
Bytes(lo, hi) == [i \in 1..(hi - lo + 1) |-> lo + i - 1]

\* Cursor::new(Vec::with_capacity(cap))
NewCursor(cap) == [data |-> <<>>, pos |-> 0, cap |-> cap]

\* The handshake cursors of a connection that has left Connecting are dropped.
NoHs == [req_pos |-> 0, res_pos |-> 0, res |-> "none"]

\* self.out_buffer.position() < self.out_buffer.get_ref().len()
Pending(buf) == buf.pos < Len(buf.data)

\* The bytes of a cursor from its position on: &vec[position..]
Unflushed(buf) == SubSeq(buf.data, buf.pos + 1, Len(buf.data))

\* Vec's growth when `need` bytes must fit: amortised doubling.
VecGrow(cap, need) == IF need <= cap THEN cap ELSE Max(2 * cap, need)

\* Vec::reserve(additional) on a vector of length len.
VecReserve(cap, len, additional) == VecGrow(cap, len + additional)

\* Write for Cursor<Vec<u8>>: the bytes go in AT THE POSITION, over what is
\* there, the vector grows as needed, and the position moves past them.
CursorWrite(buf, frame) ==
    LET n    == Len(frame)
        d    == buf.data
        keep == SubSeq(d, 1, buf.pos)
        rest == SubSeq(d, buf.pos + n + 1, Len(d))
        nd   == keep \o frame \o rest
    IN  [data |-> nd, pos |-> buf.pos + n, cap |-> VecGrow(buf.cap, Len(nd))]

\* ------------------------------------------------- the connection, as a value

\* The connection and what one call adds to it: the callbacks made (cb), the
\* call's result (res) and whether it panicked (halt).
Conn == [state |-> state, hs |-> hs, endpoint |-> endpoint, events |-> events,
         in_buffer |-> in_buffer, out_buffer |-> out_buffer,
         addresses |-> addresses, socket |-> socket, hist |-> hist,
         cb |-> <<>>, res |-> "Ok", halt |-> FALSE, info |-> {}]

Call(c, f, a) == [c EXCEPT !.cb = Append(@, [f |-> f, a |-> a])]

Ret(c, r) == [c EXCEPT !.res = r]

Panic(c) == [c EXCEPT !.halt = TRUE, !.res = "panic"]

\* State::is_connecting
is_connecting(s) == s = "Connecting"

\* State::is_closing
is_closing(s) == s \in {"AwaitingClose", "FinishedClose"}

is_client(c) == c.endpoint = "Client"

\* is_server() with the test of is_client().
is_server_swapped(c) == c.endpoint = "Client"

is_server(c) == c.endpoint = "Server"

\* check_events() that sets the write-interest without looking at the buffer.
check_events_unconditional(c) ==
    IF ~is_connecting(c.state)
    THEN [c EXCEPT !.events = @ \cup {"readable", "writable"}]
    ELSE c

\* Connection::check_events
check_events(c) ==
    IF ~is_connecting(c.state)
    THEN [c EXCEPT !.events = @ \cup {"readable"} \cup
                       (IF Pending(c.out_buffer) THEN {"writable"} ELSE {})]
    ELSE c

\* open() without the test of the state it replaces.
open_unchecked(c) == Ret([c EXCEPT !.state = "Open", !.hs = NoHs], "Ok")

\* Connection::open
open(c) ==
    Ret([c EXCEPT !.state = "Open", !.hs = NoHs],
        IF is_connecting(c.state) THEN "Ok" ELSE "Internal")

\* Connection::as_server
as_server(c) == Ret([c EXCEPT !.events = @ \cup {"readable"}], "Ok")

\* Connection::as_client
as_client(c, addrs) ==
    IF is_connecting(c.state)
    THEN Ret([c EXCEPT !.addresses = addrs,
                       !.events = @ \cup {"writable"},
                       !.endpoint = "Client"], "Ok")
    ELSE Ret(c, "Internal")

\* disconnect() that leaves the event set as it is.
disconnect_keeps_events(c) ==
    IF c.state \in {"RespondingClose", "FinishedClose", "Connecting"}
    THEN c
    ELSE Call(c, "on_close", <<"Abnormal", "">>)

\* disconnect() that invokes on_close in every state.
disconnect_always_closes(c) ==
    [Call(c, "on_close", <<"Abnormal", "">>) EXCEPT !.events = {}]

\* Connection::disconnect
disconnect(c) ==
    LET d == IF c.state \in {"RespondingClose", "FinishedClose", "Connecting"}
             THEN c
             ELSE Call(c, "on_close", <<"Abnormal", "">>)
    IN  [d EXCEPT !.events = {}]

\* send_close without its arm for AwaitingClose | FinishedClose: a repeated
\* close is handled like the answer to the peer's close.
send_close_repeated(c, code, reason) ==
    LET c0 == [c EXCEPT !.info = @ \cup {code}]
    IN  CASE c.state \in {"RespondingClose", "AwaitingClose", "FinishedClose"} ->
                Ret(check_events([c0 EXCEPT !.state = "FinishedClose"]), "Ok")
          [] c.state = "Open" ->
                Ret(check_events([c0 EXCEPT !.state = "AwaitingClose"]), "Ok")
          [] c.state = "Connecting" ->
                IF settings.debug_assertions THEN Panic(c0)
                ELSE Ret(check_events(c0), "Ok")

\* Connection::send_close; the close code it is called with is kept in info
send_close(c, code, reason) ==
    LET c0 == [c EXCEPT !.info = @ \cup {code}]
    IN  CASE c.state = "RespondingClose" ->
                Ret(check_events([c0 EXCEPT !.state = "FinishedClose"]), "Ok")
          [] c.state \in {"AwaitingClose", "FinishedClose"} ->
                Ret(check_events(c0), "Ok")
          [] c.state = "Open" ->
                Ret(check_events([c0 EXCEPT !.state = "AwaitingClose"]), "Ok")
          [] c.state = "Connecting" ->
                \* debug_assert!(false, ..): a panic in a build with debug
                \* assertions, nothing in a release build
                IF settings.debug_assertions THEN Panic(c0)
                ELSE Ret(check_events(c0), "Ok")

\* Connection::check_buffer_out
check_buffer_out(c, frame) ==
    LET buf == c.out_buffer
    IN  IF buf.cap <= Len(buf.data) + Len(frame)
        THEN LET new == Unflushed(buf)
             IN  IF Len(new) = buf.cap
                 THEN IF settings.out_buffer_grow
                      THEN Ret([c EXCEPT !.out_buffer =
                                 [data |-> new, pos |-> 0,
                                  cap |-> VecReserve(buf.cap, Len(new),
                                                     settings.out_buffer_capacity)]],
                               "Ok")
                      ELSE Ret(c, "Capacity")
                 ELSE Ret([c EXCEPT !.out_buffer =
                            [data |-> new, pos |-> 0, cap |-> buf.cap]], "Ok")
        ELSE Ret(c, "Ok")

\* Connection::buffer_frame
buffer_frame(c, frame) ==
    LET c1 == check_buffer_out(c, frame)
    IN  IF c1.res # "Ok" THEN c1
        ELSE Ret([c1 EXCEPT !.out_buffer = CursorWrite(@, frame)], "Ok")

\* Connection::send_message
send_message(c, frame) ==
    IF is_closing(c.state) THEN Ret(c, "Ok")
    ELSE LET c1 == buffer_frame(c, frame)
         IN  IF c1.res # "Ok" THEN c1 ELSE Ret(check_events(c1), "Ok")

\* shutdown() that tears the connection down instead of closing it.
shutdown_disconnects(c) == Ret(disconnect(Call(c, "on_shutdown", <<>>)), "Ok")

\* Connection::shutdown
shutdown(c) ==
    LET c1 == send_close(Call(c, "on_shutdown", <<>>), "Away", "Shutting down.")
    IN  IF c1.halt \/ c1.res = "Ok" THEN c1
        ELSE disconnect(Call(c1, "on_error", c1.res))

\* error() that reports and hard-disconnects, whatever the kind.
error_disconnects(c, kind) == disconnect(Call(c, "on_error", kind))

\* error() that reports and begins a graceful close, whatever the kind.
error_closes(c, kind) == send_close(Call(c, "on_error", kind), "Error", kind)

\* Connection::error
error(c, kind) ==
    LET reported == Call(c, "on_error", kind)
        closing(code) ==
            LET c1 == send_close(reported, code, kind)
            IN  IF c1.halt \/ c1.res = "Ok" THEN c1
                ELSE disconnect(Call(c1, "on_error", c1.res))
        respond(payload) ==
            IF is_server(c)
            THEN [reported EXCEPT !.hs.res = payload,
                                  !.events = (@ \ {"readable"}) \cup {"writable"}]
            ELSE [reported EXCEPT !.events = {}]
    IN  IF is_connecting(c.state)
        THEN CASE kind = "Io" /\ settings.ssl -> [reported EXCEPT !.events = {}]
               [] kind = "Protocol" -> respond("Bad Request")
               [] OTHER -> respond("Internal Server Error")
        ELSE CASE kind = "Internal" ->
                    IF settings.panic_on_internal THEN Panic(c) ELSE closing("Error")
               [] kind = "Capacity" ->
                    IF settings.panic_on_capacity THEN Panic(c) ELSE closing("Size")
               [] kind = "Protocol" ->
                    IF settings.panic_on_protocol THEN Panic(c) ELSE closing("Protocol")
               [] kind = "Encoding" ->
                    IF settings.panic_on_encoding THEN Panic(c) ELSE closing("Invalid")
               [] kind = "Http" -> disconnect(reported)
               [] kind = "Custom" -> reported
               [] kind = "Timer" ->
                    IF settings.panic_on_timeout THEN Panic(c) ELSE reported
               [] kind = "Queue" ->
                    IF settings.panic_on_queue THEN Panic(c) ELSE reported
               [] OTHER ->
                    IF settings.panic_on_io THEN Panic(c) ELSE disconnect(reported)

\* reset with self.addresses.last() for self.addresses.pop(): the address is
\* used and stays in the list.
reset_keeps_address(c, connected) ==
    IF is_client(c) /\ is_connecting(c.state)
    THEN LET c1 == [c EXCEPT !.hs.req_pos = 0, !.hs.res_pos = 0,
                             !.events = (@ \ {"readable"}) \cup {"writable"}]
         IN  IF Len(c.addresses) > 0
             THEN Ret([c1 EXCEPT !.hist.popped = @ + 1,
                                 !.socket.negotiating = FALSE],
                      IF connected THEN "Ok" ELSE "Io")
             ELSE Ret([c1 EXCEPT !.info = @ \cup {"exhausted"}], "Internal")
    ELSE Ret(c, "Internal")

\* reset without its tests of the endpoint and of the state.
reset_unchecked(c, connected) ==
    LET c1 == [c EXCEPT !.hs.req_pos = 0, !.hs.res_pos = 0,
                        !.events = (@ \ {"readable"}) \cup {"writable"}]
        n  == Len(c.addresses)
    IN  IF n > 0
        THEN LET c2 == [c1 EXCEPT !.addresses = SubSeq(@, 1, n - 1),
                                  !.hist.popped = @ + 1]
             IN  IF connected
                 THEN Ret([c2 EXCEPT !.socket.negotiating = FALSE], "Ok")
                 ELSE Ret(c2, "Io")
        ELSE LET c2 == [c1 EXCEPT !.info = @ \cup {"exhausted"}]
             IN  IF settings.panic_on_new_connection THEN Panic(c2)
                 ELSE Ret(c2, "Internal")

\* Connection::reset; connected: whether TcpStream::connect succeeds
reset(c, connected) ==
    IF is_client(c)
    THEN IF is_connecting(c.state)
         THEN LET c1 == [c EXCEPT !.hs.req_pos = 0, !.hs.res_pos = 0,
                                  !.events = (@ \ {"readable"}) \cup {"writable"}]
                  n  == Len(c.addresses)
              IN  IF n > 0
                  THEN LET c2 == [c1 EXCEPT !.addresses = SubSeq(@, 1, n - 1),
                                            !.hist.popped = @ + 1]
                       IN  IF connected
                           THEN Ret([c2 EXCEPT !.socket.negotiating = FALSE], "Ok")
                           ELSE Ret(c2, "Io")
                  ELSE LET c2 == [c1 EXCEPT !.info = @ \cup {"exhausted"}]
                       IN  IF settings.panic_on_new_connection THEN Panic(c2)
                           ELSE Ret(c2, "Internal")
         ELSE Ret(c, "Internal")
    ELSE Ret(c, "Internal")

\* ---------------------------------------------------------------- the stream

\* What one pull of the stream (try_read_buf) can give: n >= 1 bytes of
\* messages ("data"), the bytes of the peer's close frame ("close"), an end of
\* stream (Some(0)), nothing yet (None, "block") or an I/O error; h is what the
\* handler's on_message returns for it.
Pulls(maxn) ==
    [k : {"data"}, n : 1..maxn, h : {"Ok", "Err"}] \cup
    [k : {"close"}, n : {1}, h : {"Ok"}] \cup
    [k : {"eof"}, n : {0}, h : {"Ok", "Err"}] \cup
    [k : {"block", "ioerr"}, n : {0}, h : {"Ok"}]

\* The pulls that let the loop of read() go on.
MorePulls(maxn) == {p \in Pulls(maxn) : p.k \in {"data", "close"} /\ p.h = "Ok"}

\* The pulls of one read(): the loop goes on after all but the last.
Scripts(maxn) ==
    UNION {{s \in [1..n -> Pulls(maxn)] :
                \A i \in 1..(n - 1) : s[i] \in MorePulls(maxn)}
           : n \in 1..MaxPulls}

\* What one flush of the stream (try_write_buf) can give for `left` unflushed
\* bytes: n of them written, nothing yet (None) or an I/O error.
Flushes(left) ==
    [k : {"n"}, n : 0..left] \cup [k : {"block", "err"}, n : {0}]

\* try_read_buf(self.in_buffer.get_mut()): the bytes go after the vector's
\* last, into its spare room; a full vector is first given more room.
try_read_buf(c, p) ==
    LET buf  == c.in_buffer
        len  == Len(buf.data)
        cap1 == IF len = buf.cap THEN VecReserve(buf.cap, len, ReadReserve)
                ELSE buf.cap
        n    == IF p.k \in {"data", "close"} THEN Min(p.n, cap1 - len) ELSE 0
        from == c.hist.pulled
    IN  [c EXCEPT !.in_buffer = [data |-> buf.data \o Bytes(from + 1, from + n),
                                 pos |-> buf.pos, cap |-> cap1],
                  !.hist.pulled = from + n,
                  !.info = @ \cup (IF p.k = "close" THEN {"close"} ELSE {})]

\* try_write_buf(&mut self.out_buffer): n bytes from the position on go to the
\* stream and the position moves past them.
try_write_buf(c, w) ==
    LET buf == c.out_buffer
    IN  IF w.k = "n"
        THEN [c EXCEPT !.out_buffer.pos = @ + w.n,
                       !.socket.written =
                           @ \o SubSeq(buf.data, buf.pos + 1, buf.pos + w.n)]
        ELSE c

\* The stream may enter a negotiation while it does I/O.
negotiate(c, neg) ==
    IF neg THEN [c EXCEPT !.socket.negotiating = TRUE, !.hist.negs = @ + 1]
    ELSE c

\* Read for Cursor<Vec<u8>> into a destination of n bytes.
CursorRead(buf, n) ==
    LET k == Min(n, Len(buf.data) - buf.pos)
    IN  [bytes |-> SubSeq(buf.data, buf.pos + 1, buf.pos + k),
         buf   |-> [buf EXCEPT !.pos = @ + k]]

\* Connection::buffer_in
buffer_in(c, p) ==
    IF p.k = "ioerr" THEN Ret(c, "Io")
    ELSE IF p.k = "block" THEN Ret(c, "None")
    ELSE LET c1  == try_read_buf(c, p)
             buf == c1.in_buffer
         IN  IF Len(buf.data) = buf.cap
             THEN LET new == Unflushed(buf)
                  IN  IF Len(new) = buf.cap
                      THEN IF settings.in_buffer_grow
                           THEN Ret([c1 EXCEPT !.in_buffer =
                                      [data |-> new, pos |-> 0,
                                       cap |-> VecReserve(buf.cap, Len(new),
                                                  settings.in_buffer_capacity)]],
                                    "Ok")
                           ELSE Ret(c1, "Capacity")
                      ELSE Ret([c1 EXCEPT !.in_buffer =
                                 [data |-> new, pos |-> 0, cap |-> buf.cap]], "Ok")
             ELSE Ret(c1, "Ok")

\* Connection::read_data: the destination `buffer` is Vec::new(), of length 0
read_data(c, h) ==
    LET r  == CursorRead(c.in_buffer, 0)
        c1 == Call([c EXCEPT !.in_buffer = r.buf], "on_message", r.bytes)
    IN  Ret(c1, IF h = "Ok" THEN "Ok" ELSE "Custom")

\* The while loop of Connection::read
RECURSIVE read_loop(_, _)
read_loop(c, script) ==
    IF script = <<>> THEN Ret(c, "Ok")
    ELSE LET p  == Head(script)
             c1 == buffer_in(c, p)
         IN  IF c1.res = "None" THEN Ret(c1, "Ok")
             ELSE IF c1.res # "Ok" THEN c1
             ELSE LET c2 == read_data(c1, p.h)
                  IN  IF c2.res # "Ok" THEN c2
                      ELSE IF p.k = "eof"
                      THEN LET c3 == [c2 EXCEPT !.info = @ \cup {"eof"}]
                           IN  IF "writable" \in c3.events
                               THEN Ret([c3 EXCEPT !.events = @ \ {"readable"}], "Ok")
                               ELSE Ret(disconnect(c3), "Ok")
                      ELSE read_loop(c2, Tail(script))

\* Connection::read, outside a negotiation
read_plain(c, script, neg) ==
    IF is_connecting(c.state) THEN Ret(c, "Ok")
    ELSE LET c1 == read_loop(c, script)
             c2 == negotiate(c1, neg)
         IN  IF c2.res = "Ok" /\ c2.socket.negotiating
             THEN [c2 EXCEPT !.events = (@ \ {"readable"}) \cup {"writable"}]
             ELSE c2

\* Connection::write, outside a negotiation
write_plain(c, w, neg) ==
    IF is_connecting(c.state) THEN Ret(c, "Ok")
    ELSE LET c1 == [c EXCEPT !.events = @ \ {"writable"}]
         IN  IF w.k = "err" THEN Ret(negotiate(c1, neg), "Io")
             ELSE LET c2 == negotiate(try_write_buf(c1, w), neg)
                      finished == w.k = "n" /\
                                  (w.n = 0 \/ c2.out_buffer.pos = Len(c2.out_buffer.data))
                  IN  IF finished /\ c2.state = "FinishedClose" /\ is_server(c2)
                      THEN Ret([c2 EXCEPT !.events = {}], "Ok")
                      ELSE LET c3 == Ret(check_events(c2), "Ok")
                           IN  IF c3.socket.negotiating
                               THEN [c3 EXCEPT !.events =
                                        (@ \ {"writable"}) \cup {"readable"}]
                               ELSE c3

\* self.socket.clear_negotiating(); info keeps whether the call delegated, and
\* whether it delegated more than once
clear_negotiating(c, clr) ==
    IF clr = "Ok"
    THEN Ret([c EXCEPT !.socket.negotiating = FALSE,
                       !.info = @ \cup (IF "delegated" \in @ THEN {"again"}
                                        ELSE {"delegated"})], "Ok")
    ELSE Ret(c, "Internal")

\* read() that reads whether or not the stream is negotiating.
read_ignores_negotiation(c, script, w, neg, clr) == read_plain(c, script, neg)

RECURSIVE read(_, _, _, _, _), write(_, _, _, _, _)

\* Connection::read
read(c, script, w, neg, clr) ==
    IF c.socket.negotiating
    THEN LET c1 == clear_negotiating(c, clr)
         IN  IF c1.res # "Ok" THEN c1 ELSE write(c1, script, w, neg, clr)
    ELSE read_plain(c, script, neg)

\* Connection::write
write(c, script, w, neg, clr) ==
    IF c.socket.negotiating
    THEN LET c1 == clear_negotiating(c, clr)
         IN  IF c1.res # "Ok" THEN c1 ELSE read(c1, script, w, neg, clr)
    ELSE write_plain(c, w, neg)

\* ------------------------------------------------------- the command channel

\* io::ALL: the token that addresses every connection.
ALL == "ALL"

\* The token of the modelled connection.
ConnToken == "t1"

\* The threads that hold a Sender: thread "a" holds the Sender of the modelled
\* connection, thread "b" the Sender of another connection, thread "c" a clone
\* of the Sender of thread "a".
Threads == {"a", "b", "c"}

\* The threads that hold a Sender made by Sender::new.
Owners == {"a", "b"}

\* #[derive(Clone)] on Sender: a Sender with a copy of each field (the channel
\* handle is the one shared channel)
sender_clone(s) == [token |-> s.token, connection_id |-> s.connection_id]

\* Sender::new(token, channel, connection_id), as each thread holds it
SenderOf(t) ==
    CASE t = "a" -> [token |-> "t1", connection_id |-> 1]
      [] t = "b" -> [token |-> "t2", connection_id |-> 2]
      [] OTHER -> sender_clone([token |-> "t1", connection_id |-> 1])

\* Command { token, signal, connection_id }; the signal is its variant k and
\* the variant's fields a
Command(token, k, a, id) ==
    [token |-> token, signal |-> [k |-> k, a |-> a], connection_id |-> id]

NoCommand == Command("none", "None", <<>>, 0)

\* mio::channel::sync_channel(bound): the queue of undelivered commands, and
\* for each thread the command of the send it is parked in (NoCommand: none).
\* timers is the set of timeout handles the event loop that owns the receiving
\* end has scheduled and that have neither fired nor been cancelled.
NewChannel(bound) ==
    [queue |-> <<>>, bound |-> bound, open |-> TRUE, stopping |-> FALSE,
     parked |-> [t \in Threads |-> NoCommand], timers |-> {}]

\* channel_send on a channel that hands the newest command out first.
channel_send_front(ch, t, cmd) ==
    LET info == (IF ch.open THEN {} ELSE {"closed"}) \cup
                (IF Len(ch.queue) >= ch.bound THEN {"full"} ELSE {})
    IN  IF ~ch.open THEN [ch |-> ch, res |-> "Queue", info |-> info]
        ELSE IF Len(ch.queue) < ch.bound
        THEN [ch |-> [ch EXCEPT !.queue = <<cmd>> \o @], res |-> "Ok",
              info |-> info]
        ELSE [ch |-> [ch EXCEPT !.parked[t] = cmd], res |-> "parked",
              info |-> info]

\* self.channel.send(cmd).map_err(Error::from), called by thread t.
\* mio::channel::SyncSender::send is the blocking send of a bounded channel
\* (try_send is the one that returns when the channel is full, and SendError
\* has no variant for a full channel): with the receiver gone it fails, which
\* Error::from turns into a Queue error; with room it enqueues; on a full
\* channel the calling thread is parked until there is room.
channel_send(ch, t, cmd) ==
    LET info == (IF ch.open THEN {} ELSE {"closed"}) \cup
                (IF Len(ch.queue) >= ch.bound THEN {"full"} ELSE {})
    IN  IF ~ch.open THEN [ch |-> ch, res |-> "Queue", info |-> info]
        ELSE IF Len(ch.queue) < ch.bound
        THEN [ch |-> [ch EXCEPT !.queue = Append(@, cmd)], res |-> "Ok",
              info |-> info]
        ELSE [ch |-> [ch EXCEPT !.parked[t] = cmd], res |-> "parked",
              info |-> info]

\* Sender::send
sender_send(ch, t, msg) ==
    channel_send(ch, t, Command(SenderOf(t).token, "Message", <<msg>>,
                                SenderOf(t).connection_id))

\* broadcast with the Sender's own token in the place of ALL.
sender_broadcast_own(ch, t, msg) == sender_send(ch, t, msg)

\* Sender::broadcast
sender_broadcast(ch, t, msg) ==
    channel_send(ch, t, Command(ALL, "Message", <<msg>>,
                                SenderOf(t).connection_id))

\* Sender::close
sender_close(ch, t, code) ==
    channel_send(ch, t, Command(SenderOf(t).token, "Close", <<code, "">>,
                                SenderOf(t).connection_id))

\* Sender::close_with_reason
sender_close_with_reason(ch, t, code, reason) ==
    channel_send(ch, t, Command(SenderOf(t).token, "Close", <<code, reason>>,
                                SenderOf(t).connection_id))

\* Sender::connect
sender_connect(ch, t, url) ==
    channel_send(ch, t, Command(SenderOf(t).token, "Connect", <<url>>,
                                SenderOf(t).connection_id))

\* Sender::shutdown
sender_shutdown(ch, t) ==
    channel_send(ch, t, Command(SenderOf(t).token, "Shutdown", <<>>,
                                SenderOf(t).connection_id))

\* Sender::timeout
sender_timeout(ch, t, ms, token) ==
    channel_send(ch, t, Command(SenderOf(t).token, "Timeout", <<ms, token>>,
                                SenderOf(t).connection_id))

\* Sender::cancel that takes the timeout off the timer itself.
sender_cancel_sync(ch, t, timeout) ==
    LET r == channel_send(ch, t, Command(SenderOf(t).token, "Cancel",
                                         <<timeout>>, SenderOf(t).connection_id))
    IN  [r EXCEPT !.ch.timers = @ \ {timeout}]

\* Sender::cancel
sender_cancel(ch, t, timeout) ==
    channel_send(ch, t, Command(SenderOf(t).token, "Cancel", <<timeout>>,
                                SenderOf(t).connection_id))

\* The return of a parked send: the command is enqueued once there is room,
\* or the send fails once the receiver is gone.
channel_resume(ch, t) ==
    IF ch.open
    THEN [ch |-> [ch EXCEPT !.queue = Append(@, ch.parked[t]),
                            !.parked[t] = NoCommand],
          res |-> "Ok", info |-> {"waited"}]
    ELSE [ch |-> [ch EXCEPT !.parked[t] = NoCommand],
          res |-> "Queue", info |-> {"waited", "closed"}]

\* Connection::new_timeout: the handler is told the handle of the timeout the
\* event loop scheduled for its token.
new_timeout(c, event, timeout) ==
    Ret(Call(c, "on_new_timeout", <<event, timeout>>), "Ok")

\* Connection::timeout_triggered: the handler's on_timeout for the token.
timeout_triggered(c, event) == Ret(Call(c, "on_timeout", event), "Ok")

\* The one handle the event loop's timer gives out for a token.
HandleOf(token) == "tm"

\* The timer after the event loop took a command: a Timeout schedules the
\* handle of its token, a Cancel takes its handle off; no other command
\* touches the timer.
schedule(timers, cmd) ==
    CASE cmd.signal.k = "Timeout" -> timers \cup {HandleOf(cmd.signal.a[2])}
      [] cmd.signal.k = "Cancel" -> timers \ {cmd.signal.a[1]}
      [] OTHER -> timers

\* The dispatcher applies a dequeued command to the connection: a Message to
\* the connection of its token (every connection for ALL) through
\* send_message, a Close through send_close, a Shutdown to every connection
\* through shutdown; a failure goes to error(). A Timeout is scheduled on the
\* event loop's timer and its handle given to the connection through
\* new_timeout; Connect and Cancel act on the event loop alone.
deliver(c, cmd, frame) ==
    LET k == cmd.signal.k
        a == cmd.signal.a
        mine == cmd.token \in {ConnToken, ALL}
        r == CASE k = "Message" /\ mine -> send_message(c, frame)
               [] k = "Close" /\ mine -> send_close(c, a[1], a[2])
               [] k = "Shutdown" -> shutdown(c)
               [] k = "Timeout" /\ cmd.token = ConnToken ->
                      new_timeout(c, a[2], HandleOf(a[2]))
               [] OTHER -> Ret(c, "Ok")
    IN  IF r.halt \/ r.res = "Ok" THEN r ELSE error(r, r.res)

\* --------------------------------------------------------------- the settings

\* Settings::default(), but for the buffer capacities (scaled to the bounds)
\* and panic_on_internal (off); debug_assertions and ssl are the build's flags.
BaseSettings ==
    [out_buffer_capacity |-> MaxOutCap, out_buffer_grow |-> TRUE,
     in_buffer_capacity |-> InCap, in_buffer_grow |-> TRUE,
     panic_on_new_connection |-> FALSE, panic_on_internal |-> FALSE,
     panic_on_capacity |-> FALSE, panic_on_protocol |-> FALSE,
     panic_on_encoding |-> FALSE, panic_on_queue |-> FALSE,
     panic_on_io |-> FALSE, panic_on_timeout |-> FALSE,
     max_connections |-> 1, queue_size |-> QueueSize,
     debug_assertions |-> FALSE, ssl |-> FALSE]

\* ------------------------------------------------------------------- actions

CloseCodes == {"Normal", "Away"}

Reasons == {"", "bye"}

\* A connection with settings of S, in a state of St, as an endpoint of Ends
\* and with a readiness interest of Evs.
InitFrom(S, St, Ends, Evs) ==
    /\ settings \in S
    /\ state \in St
    /\ hs = IF is_connecting(state) THEN NewHs ELSE NoHs
    /\ endpoint \in Ends
    /\ events \in Evs
    /\ in_buffer = NewCursor(settings.in_buffer_capacity)
    /\ out_buffer = NewCursor(settings.out_buffer_capacity)
    /\ addresses = <<>>
    /\ socket = [negotiating |-> FALSE, written |-> <<>>]
    /\ chan = NewChannel(settings.queue_size * settings.max_connections)
    /\ halted = FALSE
    /\ hist = [appended |-> 0, pulled |-> 0, closes |-> 0, negs |-> 0,
               given |-> 0, popped |-> 0, close_begun |-> FALSE,
               applied |-> <<>>]
    /\ last = [op |-> "new", arg |-> 0, res |-> "Ok", pre |-> state,
               cb |-> <<>>, info |-> {}]

\* Connection::new, with settings of S
InitWith(S) == InitFrom(S, {"Connecting"}, {"Server"}, {{}})

Closes(cb) == Cardinality({i \in DOMAIN cb : cb[i].f = "on_close"})

\* The effect on the connection of one call of an operation, with argument
\* arg: c is the connection after it. hist.close_begun: a close has been begun
\* on the Open connection (Open -> AwaitingClose). info "out": the call changed
\* the output buffer.
Apply(op, arg, c) ==
    /\ ~halted
    /\ hist.closes + Closes(c.cb) <= MaxCloses
    /\ state' = c.state
    /\ hs' = c.hs
    /\ endpoint' = c.endpoint
    /\ events' = c.events
    /\ in_buffer' = c.in_buffer
    /\ out_buffer' = c.out_buffer
    /\ addresses' = c.addresses
    /\ socket' = c.socket
    /\ halted' = c.halt
    /\ hist' = [c.hist EXCEPT
                    !.closes = @ + Closes(c.cb),
                    !.close_begun = @ \/ (state = "Open" /\ c.state = "AwaitingClose")]
    /\ last' = [op |-> op, arg |-> arg, res |-> c.res, pre |-> state, cb |-> c.cb,
                info |-> c.info \cup
                         (IF c.out_buffer # out_buffer THEN {"out"} ELSE {})]
    /\ UNCHANGED settings

\* One call of an operation of the connection, made on the event-loop thread.
Step(op, arg, c) == Apply(op, arg, c) /\ UNCHANGED chan

Open == Step("open", 0, open(Conn))

AsServer == Step("as_server", 0, as_server(Conn))

AsClient(maxaddrs) ==
    \E n \in 0..maxaddrs :
        Step("as_client", n,
             LET c == as_client(Conn, Bytes(1, n))
             IN  IF c.res = "Ok" THEN [c EXCEPT !.hist.given = n, !.hist.popped = 0]
                 ELSE c)

Reset == \E connected \in BOOLEAN : Step("reset", 0, reset(Conn, connected))

Shutdown == Step("shutdown", 0, shutdown(Conn))

Error == \E kind \in Kinds : Step("error", kind, error(Conn, kind))

Disconnect == Step("disconnect", 0, Ret(disconnect(Conn), "Ok"))

\* send_message with a payload of at most maxn bytes, while the run has
\* appended at most budget bytes
SendMessage(maxn, budget) ==
    \E n \in 0..maxn :
        /\ hist.appended + n <= budget
        /\ Step("send_message", n,
                LET c == send_message(Conn, Bytes(hist.appended + 1, hist.appended + n))
                IN  IF c.res = "Ok" /\ ~is_closing(state)
                    THEN [c EXCEPT !.hist.appended = @ + n]
                    ELSE c)

SendClose ==
    \E code \in CloseCodes, reason \in Reasons :
        Step("send_close", 0, send_close(Conn, code, reason))

\* The scripts of the lifecycle and of the buffer specification.
LifeScripts == Scripts(LifeBytes)

BufScripts == Scripts(MaxInBytes)

\* What the stream does in one read() or write(): the pulls (a script of
\* scripts) or the flush, and whether it enters a negotiation (of Negs) and
\* clears one.
Read(scripts, budget, Negs) ==
    \E neg \in Negs :
        /\ neg => hist.negs = 0
        /\ IF socket.negotiating
           THEN \E w \in Flushes(Len(Unflushed(out_buffer))), clr \in {"Ok", "Err"} :
                   Step("read", 0, read(Conn, <<>>, w, neg, clr))
           ELSE \E script \in scripts :
                   LET c == read(Conn, script, [k |-> "block", n |-> 0], neg, "Ok")
                   IN  c.hist.pulled <= budget /\ Step("read", 0, c)

Write(scripts, budget, Negs) ==
    \E neg \in Negs :
        /\ neg => hist.negs = 0
        /\ IF socket.negotiating
           THEN \E script \in scripts, clr \in {"Ok", "Err"} :
                   LET c == write(Conn, script, [k |-> "block", n |-> 0], neg, clr)
                   IN  c.hist.pulled <= budget /\ Step("write", 0, c)
           ELSE \E w \in Flushes(Len(Unflushed(out_buffer))) :
                   Step("write", 0, write(Conn, <<>>, w, neg, "Ok"))

\* The lifecycle specification: every operation of the connection, on a plain
\* (never negotiating) stream.
LifeSettings ==
    {BaseSettings} \cup
    {[BaseSettings EXCEPT ![f] = ~@] : f \in {"debug_assertions", "ssl"}}

Init == InitWith(LifeSettings)

Next ==
    \/ Open
    \/ AsServer
    \/ AsClient(0)
    \/ Shutdown
    \/ Error
    \/ Disconnect
    \/ SendMessage(LifeBytes, LifeBytes)
    \/ SendClose
    \/ Read(LifeScripts, LifeBytes, {FALSE})
    \/ Write(LifeScripts, LifeBytes, {FALSE})

Spec == Init /\ [][Next]_vars

\* The buffer specification: send_message, write and read on an open
\* connection, under every output-buffer policy and both input-buffer policies.
BufSettings ==
    {[BaseSettings EXCEPT !.out_buffer_capacity = cap, !.out_buffer_grow = grow]
        : cap \in 0..MaxOutCap, grow \in BOOLEAN}
    \cup {[BaseSettings EXCEPT !.in_buffer_grow = FALSE]}

InitBuf == InitWith(BufSettings)

NextBuf ==
    \/ Open
    \/ AsServer
    \/ SendMessage(MaxFrame, MaxOutBytes)
    \/ Read(BufScripts, MaxInBytes, {FALSE})
    \/ Write(BufScripts, MaxInBytes, {FALSE})

SpecBuf == InitBuf /\ [][NextBuf]_vars

\* The reconnection specification: a client, its candidate addresses and
\* reset().
ResetSettings ==
    {BaseSettings, [BaseSettings EXCEPT !.panic_on_new_connection = TRUE]}

InitReset == InitWith(ResetSettings)

NextReset ==
    \/ Open
    \/ AsServer
    \/ AsClient(MaxAddrs)
    \/ Reset
    \/ Error
    \/ Disconnect

SpecReset == InitReset /\ [][NextReset]_vars

\* The per-state specification: the operations in every variant of State,
\* under the default settings with one panic flag, or one build flag, flipped.
\* The connection starts as new() gives it, or in RespondingClose: no
\* operation of connection.rs assigns that variant, so it is a starting state
\* here for the arms that match it to be exercised.
AnySettings ==
    {BaseSettings} \cup
    {[BaseSettings EXCEPT ![f] = ~@] :
        f \in {"panic_on_internal", "panic_on_capacity", "panic_on_protocol",
               "panic_on_encoding", "panic_on_queue", "panic_on_io",
               "panic_on_timeout", "debug_assertions", "ssl"}}

InitAny ==
    InitFrom(AnySettings, {"Connecting", "RespondingClose"}, {"Server"}, {{}})

NextAny ==
    \/ Open
    \/ AsServer
    \/ AsClient(0)
    \/ SendMessage(LifeBytes, LifeBytes)
    \/ SendClose
    \/ Shutdown
    \/ Error
    \/ Disconnect

SpecAny == InitAny /\ [][NextAny]_vars

\* The report-only specification: error() on a connection that holds
\* candidate addresses, pulled bytes and appended bytes.
KeepSettings ==
    {BaseSettings} \cup
    {[BaseSettings EXCEPT ![f] = ~@] : f \in {"panic_on_timeout", "panic_on_queue"}}

\* read() calls whose loop makes one pull.
KeepScripts == {s \in LifeScripts : Len(s) = 1}

InitKeep == InitWith(KeepSettings)

NextKeep ==
    \/ Open
    \/ AsClient(MaxAddrs)
    \/ SendMessage(LifeBytes, LifeBytes)
    \/ Read(KeepScripts, LifeBytes, {FALSE})
    \/ Shutdown
    \/ Error

SpecKeep == InitKeep /\ [][NextKeep]_vars

\* The error-policy specification: the same operations and settings, on a
\* connection as new() gives it.
InitErr == InitWith(AnySettings)

SpecErr == InitErr /\ [][NextAny]_vars

\* write() on a stream that is ready: the flush takes some of the unflushed
\* bytes, or fails.
WriteReady ==
    /\ ~socket.negotiating
    /\ \E w \in {f \in Flushes(Len(Unflushed(out_buffer))) : f.k # "block"} :
           Step("write", 0, write(Conn, <<>>, w, FALSE, "Ok"))

\* The write specification: write() in every state, on a server and on a
\* client, with and without bytes appended before it.
InitWr ==
    InitFrom({BaseSettings}, {"Connecting", "RespondingClose"},
             {"Server", "Client"}, {{}})

NextWr ==
    \/ Open
    \/ AsServer
    \/ SendMessage(LifeBytes, MaxOutBytes)
    \/ SendClose
    \/ Disconnect
    \/ WriteReady

SpecWr == InitWr /\ [][NextWr]_vars

\* The negotiation specification: read() and write() on a stream that may
\* enter a negotiation while it does I/O.
InitNeg == InitWith({BaseSettings})

NextNeg ==
    \/ Open
    \/ AsServer
    \/ SendMessage(LifeBytes, LifeBytes)
    \/ Read(KeepScripts, LifeBytes, BOOLEAN)
    \/ Write(KeepScripts, LifeBytes, BOOLEAN)

SpecNeg == InitNeg /\ [][NextNeg]_vars

\* The dispatcher calls write() for a connection whose interest holds the
\* write-interest, and the stream takes every byte it is given.
Flush ==
    /\ "writable" \in events
    /\ ~socket.negotiating
    /\ Step("write", 0,
            write(Conn, <<>>, [k |-> "n", n |-> Len(Unflushed(out_buffer))],
                  FALSE, "Ok"))

\* The rejection specification: a server connection whose handshake may be
\* rejected, and a dispatcher that keeps serving its write-interest.
NextFlush ==
    \/ AsServer
    \/ Error
    \/ SendMessage(LifeBytes, LifeBytes)
    \/ Flush

\* The dispatcher does not leave a write-interest unserved for ever.
SpecFlush == InitErr /\ [][NextFlush]_vars /\ WF_vars(Flush)

\* The command specification: threads enqueue commands through their Senders
\* while the event loop opens the connection, dispatches the commands and
\* stops after a Shutdown. Thread "a" calls every operation of its Sender,
\* thread "c" sends messages through its clone of that Sender.
Messages == {"hi"}

Callers == {"a", "c"}

\* A step of thread t in the channel: r is the channel after it and the result.
ChanStep(op, t, r) ==
    /\ ~halted
    /\ chan' = r.ch
    /\ last' = [op |-> op, arg |-> t, res |-> r.res, pre |-> state, cb |-> <<>>,
                info |-> r.info \cup
                         (IF r.ch.queue # chan.queue THEN {"queued"} ELSE {})]
    /\ UNCHANGED <<state, hs, endpoint, events, in_buffer, out_buffer, addresses,
                   settings, socket, halted, hist>>

\* One call of a Sender operation by thread t, which is not parked in another.
Enqueue(op, t, r) == chan.parked[t] = NoCommand /\ ChanStep(op, t, r)

SenderSend ==
    \E t \in Callers, msg \in Messages :
        Enqueue("Sender::send", t, sender_send(chan, t, msg))

SenderBroadcast ==
    \E msg \in Messages :
        Enqueue("Sender::broadcast", "a", sender_broadcast(chan, "a", msg))

SenderClose ==
    Enqueue("Sender::close", "a", sender_close(chan, "a", "Normal"))

SenderCloseWithReason ==
    Enqueue("Sender::close_with_reason", "a",
            sender_close_with_reason(chan, "a", "Away", "bye"))

SenderConnect ==
    Enqueue("Sender::connect", "a", sender_connect(chan, "a", "ws://peer"))

SenderShutdown ==
    Enqueue("Sender::shutdown", "a", sender_shutdown(chan, "a"))

SenderTimeout ==
    Enqueue("Sender::timeout", "a", sender_timeout(chan, "a", "10ms", "tk"))

SenderCancel ==
    Enqueue("Sender::cancel", "a", sender_cancel(chan, "a", "tm"))

\* A parked send returns.
Resume ==
    \E t \in Threads :
        /\ chan.parked[t] # NoCommand
        /\ ~chan.open \/ Len(chan.queue) < chan.bound
        /\ ChanStep("resume", t, channel_resume(chan, t))

\* The event loop dequeues the oldest command and applies it, while the run
\* has appended at most budget bytes; with log, the run keeps the commands
\* applied, in order, in hist.applied.
Dispatch(budget, log) ==
    /\ chan.open
    /\ chan.queue # <<>>
    /\ LET cmd == Head(chan.queue)
           n   == IF cmd.signal.k = "Message" /\ cmd.token \in {ConnToken, ALL}
                  THEN 1 ELSE 0
           c   == deliver(Conn, cmd, Bytes(hist.appended + 1, hist.appended + n))
       IN  /\ hist.appended + n <= budget
           /\ Apply("dispatch", cmd.signal.k,
                    [c EXCEPT !.hist.appended =
                                  IF c.out_buffer # out_buffer THEN @ + n ELSE @,
                              !.hist.applied =
                                  IF log THEN Append(@, cmd) ELSE @])
           /\ chan' = [chan EXCEPT !.queue = Tail(@),
                                   !.stopping = @ \/ cmd.signal.k = "Shutdown",
                                   !.timers = schedule(@, cmd)]

\* A scheduled timeout fires: the event loop takes it off the timer and hands
\* its token to the connection.
Fire ==
    \E h \in chan.timers :
        /\ chan.open
        /\ Apply("timeout_triggered", "tk", timeout_triggered(Conn, "tk"))
        /\ chan' = [chan EXCEPT !.timers = @ \ {h}]

\* The event loop stops after a Shutdown: the receiver is dropped, and with it
\* the undelivered commands.
Stop ==
    /\ ~halted
    /\ chan.stopping
    /\ chan.open
    /\ chan' = [chan EXCEPT !.open = FALSE, !.queue = <<>>]
    /\ last' = [op |-> "stop", arg |-> 0, res |-> "Ok", pre |-> state,
                cb |-> <<>>, info |-> {}]
    /\ UNCHANGED <<state, hs, endpoint, events, in_buffer, out_buffer, addresses,
                   settings, socket, halted, hist>>

InitChan == InitWith({BaseSettings})

NextChan ==
    \/ Open
    \/ AsServer
    \/ SenderSend
    \/ SenderBroadcast
    \/ SenderClose
    \/ SenderCloseWithReason
    \/ SenderConnect
    \/ SenderShutdown
    \/ SenderTimeout
    \/ SenderCancel
    \/ Resume
    \/ Dispatch(LifeBytes, FALSE)
    \/ Fire
    \/ Stop

SpecChan == InitChan /\ [][NextChan]_vars

\* The enqueue specification: every Sender operation against an event loop
\* that drains the queue into a connection that has not finished its handshake.
NextEnv ==
    \/ SenderSend
    \/ SenderBroadcast
    \/ SenderClose
    \/ SenderCloseWithReason
    \/ SenderConnect
    \/ SenderShutdown
    \/ SenderTimeout
    \/ SenderCancel
    \/ Resume
    \/ Dispatch(LifeBytes, FALSE)
    \/ Stop

SpecEnv == InitChan /\ [][NextEnv]_vars

\* The timer specification: timeouts requested and cancelled through the
\* Sender, scheduled and cancelled by the event loop, and firing.
NextTimer ==
    \/ Open
    \/ SenderSend
    \/ SenderTimeout
    \/ SenderCancel
    \/ SenderShutdown
    \/ Resume
    \/ Dispatch(LifeBytes, FALSE)
    \/ Fire
    \/ Stop

SpecTimer == InitChan /\ [][NextTimer]_vars

\* The ordering specification: each thread numbers the commands it enqueues
\* (the message of send, the reason of close_with_reason) 1, 2, .. in the order
\* of its calls, and the run keeps the commands the event loop applies.
ByThread(cmds, t) ==
    SelectSeq(cmds, LAMBDA cmd : cmd.connection_id = SenderOf(t).connection_id)

\* The commands of thread t, oldest first: those applied, those in the queue
\* and the one of the send it is parked in.
CommandsOf(t) ==
    ByThread(hist.applied, t) \o ByThread(chan.queue, t) \o
    (IF chan.parked[t] = NoCommand THEN <<>> ELSE <<chan.parked[t]>>)

\* The number a thread gave a command.
Number(cmd) ==
    IF cmd.signal.k = "Message" THEN cmd.signal.a[1] ELSE cmd.signal.a[2]

SendNumbered ==
    \E t \in Owners :
        /\ Len(CommandsOf(t)) < MaxSends
        /\ Enqueue("Sender::send", t,
                   sender_send(chan, t, Len(CommandsOf(t)) + 1))

CloseNumbered ==
    /\ Len(CommandsOf("a")) < MaxSends
    /\ Enqueue("Sender::close_with_reason", "a",
               sender_close_with_reason(chan, "a", "Normal",
                                        Len(CommandsOf("a")) + 1))

InitFifo == InitWith({BaseSettings})

NextFifo ==
    \/ Open
    \/ AsServer
    \/ SendNumbered
    \/ CloseNumbered
    \/ Resume
    \/ Dispatch(MaxOutBytes, TRUE)

SpecFifo == InitFifo /\ [][NextFifo]_vars

\* -------------------------------------------------------------------- claims

\* The names of the Sender's enqueue operations.
SenderOps == {"Sender::send", "Sender::broadcast", "Sender::close",
              "Sender::close_with_reason", "Sender::connect",
              "Sender::shutdown", "Sender::timeout", "Sender::cancel"}

\* The close code and reason of the peer's close frame.
PeerClose == <<"Normal", "bye">>

\* C1: send_close is idempotent after the first call. From Open it moves the
\* state to AwaitingClose; called in AwaitingClose or FinishedClose, with any
\* code and reason, it returns success, leaves the state and the output buffer
\* as they were and makes no handler callback.
C1_SendCloseIdempotent ==
    last.op = "send_close" =>
        /\ last.pre = "Open" => state = "AwaitingClose" /\ last.res = "Ok"
        /\ last.pre \in {"AwaitingClose", "FinishedClose"} =>
              /\ last.res = "Ok"
              /\ state = last.pre
              /\ "out" \notin last.info
              /\ last.cb = <<>>

\* A second send_close, on a connection in AwaitingClose that holds bytes in its
\* output buffer.
C1_Witness ==
    /\ last.op = "send_close"
    /\ last.pre = "AwaitingClose"
    /\ state = "AwaitingClose"
    /\ Len(out_buffer.data) > 0

\* C2: once a close has been begun on an Open connection (by send_close,
\* shutdown or error), every later send_message returns success and appends
\* nothing to the output buffer.
C2_NoSendAfterClose ==
    (hist.close_begun /\ last.op = "send_message") =>
        (last.res = "Ok" /\ "out" \notin last.info)

\* C3: a zero-length pull of read() on a connection past Connecting is decided
\* by the pending output: with unflushed bytes the read-interest is removed
\* and the write-interest kept, without them the interest becomes empty.
C3_ZeroLengthRead ==
    (last.op = "read" /\ "eof" \in last.info /\ last.pre # "Connecting") =>
        IF Pending(out_buffer)
        THEN "readable" \notin events /\ "writable" \in events
        ELSE events = {}

\* C4: with out_buffer_grow off, a send_message on an Open connection whose
\* frame is longer than out_buffer_capacity fails with a Capacity error and
\* leaves the output buffer as it was.
C4_FrameRejected ==
    (/\ last.op = "send_message"
     /\ last.pre = "Open"
     /\ ~settings.out_buffer_grow
     /\ last.arg > settings.out_buffer_capacity) =>
        (last.res = "Capacity" /\ "out" \notin last.info)

\* position <= length <= capacity, the capacity being the configured one when
\* growth is off.
BufferBounded(buf, capacity, grow) ==
    /\ buf.pos <= Len(buf.data)
    /\ Len(buf.data) <= buf.cap
    /\ ~grow => Len(buf.data) <= capacity

\* C5: after any sequence of send_message, write and read, both buffers satisfy
\* position <= length <= capacity, with the configured capacity when growth is
\* off.
C5_BuffersBounded ==
    /\ BufferBounded(in_buffer, settings.in_buffer_capacity, settings.in_buffer_grow)
    /\ BufferBounded(out_buffer, settings.out_buffer_capacity,
                     settings.out_buffer_grow)

\* C6: the output path is a lossless FIFO: the bytes the stream has been handed,
\* followed by the unflushed bytes of the output buffer, are the bytes of the
\* frames send_message accepted, in order.
C6_OutputFifo ==
    socket.written \o Unflushed(out_buffer) = Bytes(1, hist.appended)

\* C7: every reset() that obtains an address removes exactly that one from the
\* list and none is ever added, so of the n addresses given at most n are
\* obtained; a reset() on the empty list fails with an Internal error, or
\* stops the process when panic_on_new_connection is set, and the list stays
\* empty.
C7_ResetTerminates ==
    /\ hist.popped + Len(addresses) = hist.given
    /\ (last.op = "reset" /\ "exhausted" \in last.info) =>
          /\ addresses = <<>>
          /\ IF settings.panic_on_new_connection
             THEN halted /\ last.res = "panic"
             ELSE ~halted /\ last.res = "Internal"

\* A client given two addresses has obtained both, and its next reset() finds
\* the list empty.
C7_Witness ==
    /\ last.op = "reset"
    /\ "exhausted" \in last.info
    /\ hist.given = 2
    /\ hist.popped = 2

\* C8: every Sender enqueue operation returns without blocking (no thread is
\* ever parked in one); it fails if and only if the channel is closed or holds
\* queue_size * max_connections undelivered commands, whatever the state of
\* the connection, and a failed one leaves the queue as it was.
C8_EnqueueNeverBlocks ==
    /\ \A t \in Threads : chan.parked[t] = NoCommand
    /\ last.op \in SenderOps =>
          /\ last.res # "Ok" <=> last.info \cap {"closed", "full"} # {}
          /\ last.res # "Ok" => "queued" \notin last.info

\* C9: send_close on an Open connection moves the state to AwaitingClose and
\* leaves the write-interest set.
C9_CloseRequestsWrite ==
    (last.op = "send_close" /\ last.pre = "Open") =>
        (state = "AwaitingClose" /\ "writable" \in events)

\* C10: when read() pulls the peer's close frame, on_close is invoked with the
\* peer's code and reason; an AwaitingClose connection is then in
\* FinishedClose, an Open one in RespondingClose or FinishedClose.
C10_CloseHandshakeCompletes ==
    (last.op = "read" /\ "close" \in last.info /\ last.res = "Ok") =>
        /\ last.pre \in {"Open", "AwaitingClose"} =>
              \E i \in DOMAIN last.cb :
                  last.cb[i] = [f |-> "on_close", a |-> PeerClose]
        /\ last.pre = "AwaitingClose" => state = "FinishedClose"
        /\ last.pre = "Open" => state \in {"RespondingClose", "FinishedClose"}

\* The order of the states: Connecting, Open, the two half-closed states, then
\* FinishedClose.
StateRank(s) ==
    CASE s = "Connecting" -> 0
      [] s = "Open" -> 1
      [] s \in {"AwaitingClose", "RespondingClose"} -> 2
      [] OTHER -> 3

\* The operations of the connection other than reset().
ForwardOps == {"open", "as_server", "as_client", "send_message", "send_close",
               "shutdown", "error", "disconnect", "read", "write"}

\* C11: no operation of the connection other than reset() leaves the
\* connection in a state earlier in the order Connecting, Open,
\* AwaitingClose | RespondingClose, FinishedClose than the one it was called in.
C11_StateMovesForward ==
    last.op \in ForwardOps => StateRank(last.pre) <= StateRank(state)

\* C12: the commands one thread enqueues through its Sender are applied in the
\* order of its calls, each exactly once, whatever the other thread enqueues in
\* between: the commands of a thread that are applied, then those queued, then
\* the one of a parked send, carry the numbers 1, 2, .. without gap or repeat.
C12_PerSenderFifo ==
    \A t \in Owners :
        \A i \in 1..Len(CommandsOf(t)) : Number(CommandsOf(t)[i]) = i

\* Thread "a" has had three commands applied, the second after a command of
\* thread "b", and a send has waited for room in the channel.
C12_Witness ==
    /\ Len(ByThread(hist.applied, "a")) = 3
    /\ \E i \in 2..Len(hist.applied) :
          /\ hist.applied[i].connection_id = 1
          /\ hist.applied[i - 1].connection_id = 2
    /\ \E t \in Owners : chan.parked[t] # NoCommand

\* The Signal variant each Sender operation builds.
VariantOf(op) ==
    CASE op \in {"Sender::send", "Sender::broadcast"} -> "Message"
      [] op \in {"Sender::close", "Sender::close_with_reason"} -> "Close"
      [] op = "Sender::connect" -> "Connect"
      [] op = "Sender::shutdown" -> "Shutdown"
      [] op = "Sender::timeout" -> "Timeout"
      [] OTHER -> "Cancel"

\* cmd is the envelope of operation op called on the Sender of the modelled
\* connection (token "t1", connection_id 1), which thread "a" holds and thread
\* "c" holds a clone of.
IsEnvelope(cmd, op) ==
    /\ cmd.signal.k = VariantOf(op)
    /\ cmd.connection_id = 1
    /\ cmd.token = IF op = "Sender::broadcast" THEN "ALL" ELSE "t1"

\* C13: a Sender operation that returns Ok has added exactly one command to
\* the queue, and one that is parked holds exactly one for it; the command's
\* signal is the operation's variant, its connection_id the Sender's, its
\* token the Sender's, or the all-connections token for broadcast; the clone
\* held by thread "c" builds the envelopes of the original.
C13_OneEnvelopePerCall ==
    [][\A t \in Callers :
          (last'.op \in SenderOps /\ last'.arg = t) =>
              CASE last'.res = "Ok" ->
                      /\ Len(chan'.queue) = Len(chan.queue) + 1
                      /\ SubSeq(chan'.queue, 1, Len(chan.queue)) = chan.queue
                      /\ IsEnvelope(chan'.queue[Len(chan'.queue)], last'.op)
                      /\ chan'.parked = chan.parked
                [] last'.res = "parked" ->
                      /\ chan'.queue = chan.queue
                      /\ IsEnvelope(chan'.parked[t], last'.op)
                [] OTHER -> chan'.queue = chan.queue /\ chan'.parked = chan.parked
      ]_vars

\* A broadcast by thread "a" and a send by the clone on thread "c" are in the
\* queue.
C13_Witness ==
    /\ Len(chan.queue) = 2
    /\ chan.queue[1].token = "ALL"
    /\ last.op = "Sender::send"
    /\ last.arg = "c"
    /\ last.res = "Ok"

\* C14: whatever the error kind, the state and the settings, error() first
\* invokes the handler's on_error with that error; the graceful close, the
\* disconnect, the response overwrite or the fatal stop comes after it.
C14_ReportedFirst ==
    last.op = "error" =>
        /\ last.cb # <<>>
        /\ last.cb[1] = [f |-> "on_error", a |-> last.arg]

\* The close code of the graceful close for each kind of error that has one.
CloseCodeOf(kind) ==
    CASE kind = "Internal" -> "Error"
      [] kind = "Capacity" -> "Size"
      [] kind = "Protocol" -> "Protocol"
      [] OTHER -> "Invalid"

\* The panic flag of each of these kinds.
PanicFlagOf(kind) ==
    CASE kind = "Internal" -> "panic_on_internal"
      [] kind = "Capacity" -> "panic_on_capacity"
      [] kind = "Protocol" -> "panic_on_protocol"
      [] OTHER -> "panic_on_encoding"

\* C15: past Connecting and with the kind's panic flag off, error() with kind
\* Internal, Capacity, Protocol or Encoding calls send_close with the code
\* Error, Size, Protocol or Invalid: an Open connection becomes AwaitingClose,
\* a RespondingClose one FinishedClose; the close succeeds, and then there is
\* no hard disconnect (no on_close, no second on_error, read-interest kept).
C15_GracefulClose ==
    (/\ last.op = "error"
     /\ last.arg \in {"Internal", "Capacity", "Protocol", "Encoding"}
     /\ last.pre # "Connecting"
     /\ ~settings[PanicFlagOf(last.arg)]) =>
        /\ CloseCodeOf(last.arg) \in last.info
        /\ last.pre = "Open" => state = "AwaitingClose"
        /\ last.pre = "RespondingClose" => state = "FinishedClose"
        /\ last.res = "Ok"
        /\ last.cb = <<[f |-> "on_error", a |-> last.arg]>>
        /\ "readable" \in events

\* error() with a Capacity error has moved an Open client connection to
\* AwaitingClose with the code Size.
C15_Witness ==
    /\ last.op = "error"
    /\ last.arg = "Capacity"
    /\ last.pre = "Open"
    /\ endpoint = "Client"
    /\ state = "AwaitingClose"
    /\ "Size" \in last.info

\* C16: open() called in Connecting returns Ok and the state is then Open;
\* called in Open, AwaitingClose, RespondingClose or FinishedClose it returns
\* an Internal error.
C16_OpenOnlyFromConnecting ==
    last.op = "open" =>
        IF last.pre = "Connecting"
        THEN last.res = "Ok" /\ state = "Open"
        ELSE last.res = "Internal"

\* open() has been called on a connection in AwaitingClose and has failed.
C16_Witness ==
    /\ last.op = "open"
    /\ last.pre = "AwaitingClose"
    /\ last.res = "Internal"

\* C17: reset() on a Server, or on a Client past Connecting, returns an
\* Internal error and leaves the handshake cursors, the readiness interest and
\* the addresses as they were; on a Client in Connecting with an address left
\* it takes the last address, puts both handshake cursors at position zero
\* and leaves the interest with write and without read.
C17_ResetValidity ==
    [][last'.op = "reset" =>
          IF endpoint = "Client" /\ state = "Connecting"
          THEN addresses # <<>> =>
                  /\ addresses' = SubSeq(addresses, 1, Len(addresses) - 1)
                  /\ hs'.req_pos = 0 /\ hs'.res_pos = 0
                  /\ "writable" \in events' /\ "readable" \notin events'
                  /\ last'.res \in {"Ok", "Io"}
          ELSE /\ last'.res = "Internal"
               /\ hs' = hs /\ events' = events /\ addresses' = addresses
      ]_vars

\* reset() has failed on an Open client that still has an address and
\* read-interest.
C17_Witness ==
    /\ last.op = "reset"
    /\ last.pre = "Open"
    /\ endpoint = "Client"
    /\ last.res = "Internal"
    /\ addresses # <<>>
    /\ "readable" \in events


\* C18: cancelling a timeout is advisory. cancel() only enqueues a Cancel
\* command and leaves the timer as it was; a scheduled timeout can fire as long
\* as the event loop has not applied a Cancel for it, and when it fires the
\* handler's on_timeout is delivered, whatever cancel() returned; a scheduled
\* timeout leaves the timer only by firing or by an applied Cancel.
C18_CancelAdvisory ==
    [][/\ last'.op = "Sender::cancel" => chan'.timers = chan.timers
       /\ ("tm" \in chan.timers /\ chan.open /\ ~halted) => ENABLED Fire
       /\ last'.op = "timeout_triggered" =>
              /\ "tm" \in chan.timers
              /\ last'.cb = <<[f |-> "on_timeout", a |-> "tk"]>>
       /\ ("tm" \in chan.timers /\ "tm" \notin chan'.timers) =>
              \/ last'.op = "timeout_triggered"
              \/ last'.op = "dispatch" /\ last'.arg = "Cancel"
      ]_vars

\* The timeout fired, and on_timeout was delivered, while the Cancel command of
\* a cancel() that returned Ok was still waiting in the queue.
C18_Witness ==
    /\ last.op = "timeout_triggered"
    /\ last.cb = <<[f |-> "on_timeout", a |-> "tk"]>>
    /\ chan.queue # <<>>
    /\ Head(chan.queue).signal.k = "Cancel"
    /\ "tm" \notin chan.timers


C20_SendRequestsWrite ==
    (last.op = "send_message" /\ last.pre = "Open" /\ last.arg > 0 /\
     last.res = "Ok") =>
        LET n == last.arg
            u == Unflushed(out_buffer)
        IN  /\ Len(u) >= n
            /\ SubSeq(u, Len(u) - n + 1, Len(u)) =
                   Bytes(hist.appended - n + 1, hist.appended)
            /\ "writable" \in events


\* C21: past Connecting, error() with an Http error, whatever the settings, or
\* with an Io error when panic_on_io is off, first invokes on_error with the
\* error and then disconnects hard: the event set is left empty, the state is
\* the one error() was called in (no move to AwaitingClose or FinishedClose),
\* the output buffer is untouched and no close code is sent.
C21_HardDisconnect ==
    [][(last'.op = "error" /\ ~is_connecting(state) /\
        (last'.arg = "Http" \/ (last'.arg = "Io" /\ ~settings.panic_on_io))) =>
           /\ last'.cb # <<>>
           /\ last'.cb[1] = [f |-> "on_error", a |-> last'.arg]
           /\ last'.res # "panic"
           /\ ~halted'
           /\ events' = {}
           /\ state' = state
           /\ out_buffer' = out_buffer
           /\ last'.info \cap {"Error", "Size", "Protocol", "Invalid"} = {}
      ]_vars

\* error() with an Http error on an Open connection that had the read-interest
\* and unsent bytes behind it, under a setting that makes other kinds fatal.
C21_Witness ==
    /\ last.op = "error"
    /\ last.arg = "Http"
    /\ last.pre = "Open"
    /\ state = "Open"
    /\ events = {}
    /\ settings.panic_on_io
    /\ out_buffer.data # <<>>
    /\ Len(last.cb) = 2


\* C22: past Connecting, error() with a Custom error, or with a Timer error
\* when panic_on_timeout is off, or with a Queue error when panic_on_queue is
\* off, invokes on_error with the error and nothing else: the state, the event
\* set, the input buffer, the output buffer and the address list are left as
\* they were, and on_close is not invoked.
C22_ReportOnly ==
    [][(last'.op = "error" /\ ~is_connecting(state) /\
        \/ last'.arg = "Custom"
        \/ last'.arg = "Timer" /\ ~settings.panic_on_timeout
        \/ last'.arg = "Queue" /\ ~settings.panic_on_queue) =>
           /\ last'.cb = <<[f |-> "on_error", a |-> last'.arg]>>
           /\ ~halted'
           /\ state' = state
           /\ events' = events
           /\ in_buffer' = in_buffer
           /\ out_buffer' = out_buffer
           /\ addresses' = addresses
      ]_vars

\* error() with a Queue error on an Open client that holds an address, the
\* read-interest and bytes in the output buffer: all of it is still there.
C22_Witness ==
    /\ last.op = "error"
    /\ last.arg = "Queue"
    /\ last.pre = "Open"
    /\ state = "Open"
    /\ events = {"readable"}
    /\ out_buffer.data # <<>>
    /\ in_buffer.data # <<>>
    /\ addresses # <<>>
    /\ last.cb = <<[f |-> "on_error", a |-> "Queue"]>>


\* C23: while Connecting, error() with an Io error invokes on_error with it and
\* leaves the event set empty, on a server and on a client; the pending
\* response buffer is left as it was and the write-interest is not set.
C23_SilentAbandon ==
    [][(last'.op = "error" /\ is_connecting(state) /\ last'.arg = "Io") =>
           /\ last'.cb = <<[f |-> "on_error", a |-> "Io"]>>
           /\ events' = {}
           /\ hs' = hs
           /\ state' = state
      ]_vars


\* C24: while Connecting, error() with a kind other than Io keeps the state
\* Connecting and invokes no on_close; on a server the pending response buffer
\* is replaced by the rejection payload (Bad Request for Protocol, Internal
\* Server Error for the others) and the event set is left write-only; on a
\* client the event set is left empty.
C24_RejectHandshake ==
    [][(last'.op = "error" /\ is_connecting(state) /\ last'.arg # "Io") =>
           /\ state' = "Connecting"
           /\ \A i \in 1..Len(last'.cb) : last'.cb[i].f # "on_close"
           /\ last'.cb[1] = [f |-> "on_error", a |-> last'.arg]
           /\ IF endpoint = "Server"
              THEN /\ hs'.res = IF last'.arg = "Protocol" THEN "Bad Request"
                                ELSE "Internal Server Error"
                   /\ events' = {"writable"}
              ELSE /\ events' = {}
                   /\ hs' = hs
      ]_vars

\* error() with a Protocol error has left a Connecting server with the Bad
\* Request payload and the write-interest alone.
C24_Witness ==
    /\ last.op = "error"
    /\ last.arg = "Protocol"
    /\ last.pre = "Connecting"
    /\ state = "Connecting"
    /\ endpoint = "Server"
    /\ hs.res = "Bad Request"
    /\ events = {"writable"}
    /\ hist.closes = 0


\* C25: once error() has left a Connecting server with a rejection payload in
\* its response buffer and the write-interest alone, the write() calls the
\* dispatcher makes for that interest, on a stream that takes every byte,
\* lead to a state where the payload has been written (the response cursor has
\* moved) and the event set is empty.
C25_RejectionFlushed ==
    (/\ last.op = "error"
     /\ state = "Connecting"
     /\ endpoint = "Server"
     /\ hs.res \in {"Bad Request", "Internal Server Error"}
     /\ events = {"writable"})
        ~> (hs.res_pos > 0 /\ events = {})


\* C26: disconnect() invokes on_close(Abnormal, "") exactly when it is called
\* in Open or AwaitingClose and makes no callback when called in Connecting,
\* RespondingClose or FinishedClose; in every state it leaves the event set
\* empty and the state as it was.
C26_DisconnectCallback ==
    last.op = "disconnect" =>
        /\ last.cb = IF last.pre \in {"Open", "AwaitingClose"}
                     THEN <<[f |-> "on_close", a |-> <<"Abnormal", "">>]>>
                     ELSE <<>>
        /\ events = {}
        /\ state = last.pre

\* disconnect() called in AwaitingClose, with the interest set before it.
C26_Witness ==
    /\ last.op = "disconnect"
    /\ last.pre = "AwaitingClose"
    /\ last.cb = <<[f |-> "on_close", a |-> <<"Abnormal", "">>]>>
    /\ events = {}
    /\ hist.closes = 1


C28_OneHopDelegation ==
    [][(last'.op \in {"read", "write"} /\ socket.negotiating) =>
           LET cleared == [Conn EXCEPT !.socket.negotiating = FALSE,
                                       !.info = {"delegated"}]
               same(c) == /\ state' = c.state
                          /\ events' = c.events
                          /\ in_buffer' = c.in_buffer
                          /\ out_buffer' = c.out_buffer
                          /\ socket' = c.socket
                          /\ last'.cb = c.cb
                          /\ last'.res = c.res
           IN  IF "delegated" \in last'.info
               THEN /\ "again" \notin last'.info
                    /\ IF last'.op = "read"
                       THEN \E w \in Flushes(Len(Unflushed(out_buffer))),
                               neg \in BOOLEAN :
                                same(write(cleared, <<>>, w, neg, "Ok"))
                       ELSE \E script \in KeepScripts, neg \in BOOLEAN :
                                same(read(cleared, script,
                                          [k |-> "block", n |-> 0], neg, "Ok"))
               ELSE /\ last'.res = "Internal"
                    /\ same(Ret(Conn, "Internal"))
      ]_vars

\* A write() called during a negotiation has cleared the flag and pulled a
\* byte from the stream, which read() would have done.
C28_Witness ==
    /\ last.op = "write"
    /\ "delegated" \in last.info
    /\ ~socket.negotiating
    /\ hist.negs = 1
    /\ hist.pulled = 1
    /\ socket.written = <<>>


\* The on_message callbacks among cb.
Messaged(cb) == Cardinality({i \in DOMAIN cb : cb[i].f = "on_message"})

\* C29: a read() outside a negotiation invokes on_message once for each
\* non-empty pull: not at all while Connecting, not at all when it pulled no
\* byte (nothing available, or the zero-length pull of the end of the stream),
\* and otherwise at least once and at most once per byte pulled.
C29_MessagePerPull ==
    [][(last'.op = "read" /\ ~socket.negotiating) =>
           LET pulled == hist'.pulled - hist.pulled
           IN  IF is_connecting(state) \/ pulled = 0
               THEN Messaged(last'.cb) = 0
               ELSE Messaged(last'.cb) \in 1..pulled
      ]_vars


\* The payloads of the on_message callbacks among cb, one after the other.
RECURSIVE Delivered(_)
Delivered(cb) ==
    IF cb = <<>> THEN <<>>
    ELSE (IF Head(cb).f = "on_message" THEN Head(cb).a ELSE <<>>)
         \o Delivered(Tail(cb))

\* C30: input delivery is lossless and consuming: the payloads a successful
\* read() passes to on_message are, one after the other, the bytes it pulled
\* from the stream, and the bytes it has delivered are behind the position of
\* the input buffer, so that they no longer count as unread.
C30_InputDelivered ==
    [][(last'.op = "read" /\ ~socket.negotiating /\ last'.res = "Ok") =>
           /\ Delivered(last'.cb) = Bytes(hist.pulled + 1, hist'.pulled)
           /\ Unflushed(in_buffer') = <<>>
      ]_vars


\* C31: shutdown() first invokes on_shutdown, in every state. Past Connecting
\* it then begins a graceful close with the code Away and does nothing else:
\* an Open connection becomes AwaitingClose, a RespondingClose one
\* FinishedClose, one in AwaitingClose or FinishedClose keeps its state; the
\* close attempt does not fail, so there is no on_error, no on_close and no
\* hard disconnect.
C31_ShutdownCloses ==
    last.op = "shutdown" =>
        /\ last.cb # <<>>
        /\ last.cb[1] = [f |-> "on_shutdown", a |-> <<>>]
        /\ ~is_connecting(last.pre) =>
              /\ last.cb = <<[f |-> "on_shutdown", a |-> <<>>]>>
              /\ last.res = "Ok"
              /\ "Away" \in last.info
              /\ state = CASE last.pre = "Open" -> "AwaitingClose"
                           [] last.pre = "RespondingClose" -> "FinishedClose"
                           [] OTHER -> last.pre

\* shutdown() has taken a RespondingClose connection to FinishedClose.
C31_Witness ==
    /\ last.op = "shutdown"
    /\ last.pre = "RespondingClose"
    /\ state = "FinishedClose"
    /\ last.cb = <<[f |-> "on_shutdown", a |-> <<>>]>>
    /\ "Away" \in last.info


\* The operations the dispatcher routes to a connection.
RoutedOps == {"send_message", "send_close", "shutdown", "error", "read", "write"}

\* C32: retirement is stable: an operation routed to a connection whose event
\* set disconnect() has just made empty leaves the event set empty.
C32_RetirementStable ==
    [][(last.op = "disconnect" /\ events = {} /\ last'.op \in RoutedOps) =>
           events' = {}
      ]_vars


\* C33: over the life of a connection on_close is invoked at most once,
\* whatever read()s at the end of the stream, error()s, shutdown()s and
\* disconnect()s are made.
C33_OneClose == hist.closes <= 1


\* The close codes send_close is called with by shutdown() and error().
OwnCloseCodes == {"Away", "Error", "Size", "Protocol", "Invalid"}

\* C34: no shutdown() and no error() called while Connecting reaches
\* send_close: neither calls it with any close code, and neither stops on its
\* assertion that a connection is not closed before it is open.
C34_NoCloseBeforeOpen ==
    (last.op \in {"shutdown", "error"} /\ is_connecting(last.pre)) =>
        /\ last.info \cap OwnCloseCodes = {}
        /\ ~halted

=============================================================================
